---- MODULE Spec2Model ----
(***************************************************************************)
(* Model of the evaluation helpers of the IDS evaluator                    *)
(* (src/helper/helper_functions.cpp): calculateConfusionMatrix,            *)
(* calculateMetrics, saveRocDataToCSV and evaluateAlgorithm.               *)
(*                                                                         *)
(* A behaviour is one call of one of the four functions, made from a file  *)
(* system in which the ROC artifact of the call either does not exist yet  *)
(* or is left over from an earlier run.                                    *)
(*                                                                         *)
(* A double is modelled by the exact rational it holds, written as a       *)
(* reduced fraction <<numerator, denominator>> with denominator > 0.       *)
(* Scores are small integers; numeric_limits<double>::max() is DBL_MAX.    *)
(***************************************************************************)
EXTENDS Integers, Sequences, FiniteSets, TLC

\* ---- bounds of the model ----
MaxLen == 3          \* longest scores / labels vector
MaxScore == 2        \* scores are drawn from 0..MaxScore
MaxNegThreshold == 2 \* threshold arguments are drawn from -MaxNegThreshold..MaxScore
MaxCount == 3        \* counts of a confusion matrix handed to calculateMetrics directly

\* numeric_limits<double>::max(), a stand-in far above every score that keeps
\* more significant digits than an ofstream prints.
DBL_MAX == 17976931

\* ---- double arithmetic (exact rationals) ----
Abs(x) == IF x < 0 THEN -x ELSE x

RECURSIVE GCD(_, _)
GCD(a, b) == IF b = 0 THEN a ELSE GCD(b, a % b)

\* the double n/d; d # 0
Rat(n, d) ==
    LET g == GCD(Abs(n), Abs(d))
        s == IF d < 0 THEN -1 ELSE 1
    IN  <<(s * n) \div g, (s * d) \div g>>

\* the double holding integer i
R(i) == <<i, 1>>

RAdd(x, y) == Rat(x[1] * y[2] + y[1] * x[2], x[2] * y[2])
RSub(x, y) == Rat(x[1] * y[2] - y[1] * x[2], x[2] * y[2])
RMul(x, y) == Rat(x[1] * y[1], x[2] * y[2])
\* x / y; y # 0
RDiv(x, y) == Rat(x[1] * y[2], x[2] * y[1])
RLess(x, y) == x[1] * y[2] < y[1] * x[2]

\* ---- calculateConfusionMatrix ----
\* a faulty variant: the comparison is not strict
predictedAnomalyNonStrict(score, threshold) == ~RLess(R(score), threshold)

\* a faulty variant: the comparison is scores[i] < threshold
predictedAnomalyBelow(score, threshold) == RLess(R(score), threshold)

\* bool predictedAnomaly = scores[i] > threshold;
predictedAnomaly(score, threshold) == RLess(threshold, R(score))

\* a faulty variant: the last branch repeats the condition of the first
OutcomeBucketLastBranchCopied(isAnomaly, predicted) ==
    IF isAnomaly /\ predicted THEN 1
    ELSE IF ~isAnomaly /\ predicted THEN 2
    ELSE IF ~isAnomaly /\ ~predicted THEN 3
    ELSE IF isAnomaly /\ predicted THEN 4
    ELSE 0

\* the if / else-if chain of the loop body: the counter one sample increments
\* (1 truePositives, 2 falsePositives, 3 trueNegatives, 4 falseNegatives,
\* 0 none)
OutcomeBucket(isAnomaly, predicted) ==
    IF isAnomaly /\ predicted THEN 1
    ELSE IF ~isAnomaly /\ predicted THEN 2
    ELSE IF ~isAnomaly /\ ~predicted THEN 3
    ELSE IF isAnomaly /\ ~predicted THEN 4
    ELSE 0

\* the tuple (TP, FP, TN, FN); the loop runs over scores.size() and reads
\* labels[i], so labels must be at least as long as scores
calculateConfusionMatrix(s, l, t) ==
    LET bucket(i) == OutcomeBucket(l[i], predictedAnomaly(s[i], t))
        count(k) == Cardinality({i \in 1..Len(s) : bucket(i) = k})
    IN  <<count(1), count(2), count(3), count(4)>>

\* ---- calculateMetrics ----
Accuracy(tp, fp, tn, fn) ==
    IF tp + fp + tn + fn > 0 THEN Rat(tp + tn, tp + fp + tn + fn) ELSE R(0)

Precision(tp, fp) == IF tp + fp > 0 THEN Rat(tp, tp + fp) ELSE R(0)

\* a faulty variant: an empty positive class counts as perfect recall
RecallOneWhenEmpty(tp, fn) == IF tp + fn > 0 THEN Rat(tp, tp + fn) ELSE R(1)

Recall(tp, fn) == IF tp + fn > 0 THEN Rat(tp, tp + fn) ELSE R(0)

\* a faulty variant: the static_cast<double> is missing, the division is int
SpecificityIntegerDivision(tn, fp) ==
    IF tn + fp > 0 THEN R(tn \div (tn + fp)) ELSE R(0)

Specificity(tn, fp) == IF tn + fp > 0 THEN Rat(tn, tn + fp) ELSE R(0)

\* a faulty variant: 2.0 * p * r / p + r, the sum not parenthesised
F1ScoreMisparenthesised(precision, recall) ==
    IF RLess(R(0), RAdd(precision, recall))
    THEN RAdd(RDiv(RMul(RMul(R(2), precision), recall), precision), recall)
    ELSE R(0)

\* a faulty variant: the factor 2.0 is missing
F1ScoreNoDoubling(precision, recall) ==
    IF RLess(R(0), RAdd(precision, recall))
    THEN RDiv(RMul(precision, recall), RAdd(precision, recall))
    ELSE R(0)

F1Score(precision, recall) ==
    IF RLess(R(0), RAdd(precision, recall))
    THEN RDiv(RMul(RMul(R(2), precision), recall), RAdd(precision, recall))
    ELSE R(0)

\* the keys calculateMetrics stores
MetricKeys ==
    {"true_positives", "false_positives", "true_negatives", "false_negatives",
     "accuracy", "precision", "recall", "specificity", "f1_score"}

\* map<string, double> metrics
calculateMetrics(confusionMatrix) ==
    LET tp == confusionMatrix[1]
        fp == confusionMatrix[2]
        tn == confusionMatrix[3]
        fn == confusionMatrix[4]
    IN  [true_positives |-> R(tp),
         false_positives |-> R(fp),
         true_negatives |-> R(tn),
         false_negatives |-> R(fn),
         accuracy |-> Accuracy(tp, fp, tn, fn),
         precision |-> Precision(tp, fp),
         recall |-> Recall(tp, fn),
         specificity |-> Specificity(tn, fp),
         f1_score |-> F1Score(Precision(tp, fp), Recall(tp, fn))]

\* ---- operator<< of a double into an ofstream (default precision 6) ----
RECURSIVE Pow10(_)
Pow10(k) == IF k = 0 THEN 1 ELSE 10 * Pow10(k - 1)

\* for n/d >= 1: the largest e >= 0 with 10^e <= n/d
RECURSIVE ExpUp(_, _, _)
ExpUp(n, d, e) == IF n < 10 * Pow10(e) * d THEN e ELSE ExpUp(n, d, e + 1)

\* for 0 < n/d < 1: the least k >= 1 with 10^(-k) <= n/d
RECURSIVE ExpDown(_, _, _)
ExpDown(n, d, k) == IF d <= n * Pow10(k) THEN k ELSE ExpDown(n, d, k + 1)

\* drop the trailing zeros of mantissa m # 0, counting them into exponent e
RECURSIVE StripZeros(_, _)
StripZeros(m, e) == IF m % 10 = 0 THEN StripZeros(m \div 10, e + 1) ELSE <<m, e>>

\* The text printed for double x, as <<m, e>>: the decimal m * 10^e with at
\* most six significant digits in m and no trailing zero (0 prints as <<0, 0>>).
FormatDouble(x) ==
    IF x[1] = 0 THEN <<0, 0>>
    ELSE LET n == Abs(x[1])
             d == x[2]
             sign == IF x[1] < 0 THEN -1 ELSE 1
             e == IF n >= d THEN ExpUp(n, d, 0) ELSE 0 - ExpDown(n, d, 1)
             num == IF e <= 5 THEN n * Pow10(5 - e) ELSE n
             den == IF e <= 5 THEN d ELSE d * Pow10(e - 5)
             m == (2 * num + den) \div (2 * den)
             sz == StripZeros(m, e - 5)
         IN  <<sign * sz[1], sz[2]>>

\* ---- saveRocDataToCSV ----
\* scores.size() != labels.size() || scores.empty()
InvalidInput(s, l) == Len(s) # Len(l) \/ s = <<>>

\* a faulty variant: the call of std::sort is missing
SortedPairsUnsorted(s, l) == {[i \in 1..Len(s) |-> <<s[i], l[i]>>]}

\* a faulty variant: the comparator is a.first < b.first, the order ascending
SortedPairsAscending(s, l) ==
    LET n == Len(s)
        perms == {q \in [1..n -> 1..n] :
                    /\ \A i, j \in 1..n : i # j => q[i] # q[j]
                    /\ \A i, j \in 1..n : i < j => s[q[i]] <= s[q[j]]}
    IN  {[i \in 1..n |-> <<s[q[i]], l[q[i]]>>] : q \in perms}

\* the vectors std::sort may leave in score_label_pairs: every arrangement of
\* the (score, label) pairs in which no score is followed by a greater one
\* (std::sort is not stable, so pairs of equal score come in any order)
SortedPairs(s, l) ==
    LET n == Len(s)
        perms == {q \in [1..n -> 1..n] :
                    /\ \A i, j \in 1..n : i # j => q[i] # q[j]
                    /\ \A i, j \in 1..n : i < j => s[q[i]] >= s[q[j]]}
    IN  {[i \in 1..n |-> <<s[q[i]], l[q[i]]>>] : q \in perms}

\* total_positives / total_negatives
TotalPositives(pairs) == Cardinality({i \in 1..Len(pairs) : pairs[i][2]})
TotalNegatives(pairs) == Cardinality({i \in 1..Len(pairs) : ~pairs[i][2]})

\* a faulty variant: the (0,0) point is not pushed before the loop
RocStartNoInitialPoint ==
    [true_positives |-> 0, false_positives |-> 0, prev_score |-> DBL_MAX,
     fpr |-> <<>>, tpr |-> <<>>, thresholds |-> <<>>]

\* the locals before the sweep: the counts, prev_score and the (0,0) point
RocStart ==
    [true_positives |-> 0, false_positives |-> 0, prev_score |-> DBL_MAX,
     fpr |-> <<R(0)>>, tpr |-> <<R(0)>>, thresholds |-> <<DBL_MAX>>]

\* a faulty variant: the two totals are swapped
RocPointSwappedTotals(st, P, N) ==
    [st EXCEPT !.fpr = Append(@, Rat(st.false_positives, P)),
               !.tpr = Append(@, Rat(st.true_positives, N)),
               !.thresholds = Append(@, st.prev_score)]

\* push_back of one point computed from the running counts
RocPoint(st, P, N) ==
    [st EXCEPT !.fpr = Append(@, Rat(st.false_positives, N)),
               !.tpr = Append(@, Rat(st.true_positives, P)),
               !.thresholds = Append(@, st.prev_score)]

\* a faulty variant: prev_score = score is missing
RocScoreChangeScoreNotKept(st, score, P, N) ==
    IF score # st.prev_score THEN RocPoint(st, P, N) ELSE st

\* a faulty variant: a point is emitted for every sample
RocScoreChangeEverySample(st, score, P, N) ==
    [RocPoint(st, P, N) EXCEPT !.prev_score = score]

\* if (score != prev_score): emit a point and remember the score
RocScoreChange(st, score, P, N) ==
    IF score # st.prev_score
    THEN [RocPoint(st, P, N) EXCEPT !.prev_score = score]
    ELSE st

\* a faulty variant: the two counters are taken for each other
RocCountLabelNegated(st, label) ==
    IF label THEN [st EXCEPT !.false_positives = @ + 1]
    ELSE [st EXCEPT !.true_positives = @ + 1]

\* if (label) true_positives += 1.0; else false_positives += 1.0;
RocCount(st, label) ==
    IF label THEN [st EXCEPT !.true_positives = @ + 1]
    ELSE [st EXCEPT !.false_positives = @ + 1]

\* the range-for over score_label_pairs
RECURSIVE RocSweep(_, _, _, _)
RocSweep(pairs, st, P, N) ==
    IF pairs = <<>> THEN st
    ELSE RocSweep(Tail(pairs),
                  RocCount(RocScoreChange(st, Head(pairs)[1], P, N), Head(pairs)[2]),
                  P, N)

\* the loop and the final point pushed after it
RocCurve(pairs) ==
    LET P == TotalPositives(pairs)
        N == TotalNegatives(pairs)
    IN  RocPoint(RocSweep(pairs, RocStart, P, N), P, N)

\* a faulty variant: the division by 2.0 is missing
TrapezoidNotHalved(fpr, tpr, i) ==
    RMul(RSub(fpr[i], fpr[i - 1]), RAdd(tpr[i], tpr[i - 1]))

\* a faulty variant: the term is the rectangle under the left point
TrapezoidLeftRectangle(fpr, tpr, i) ==
    RMul(RSub(fpr[i], fpr[i - 1]), tpr[i - 1])

\* a faulty variant: the term is the rectangle under the right point
TrapezoidRightRectangle(fpr, tpr, i) ==
    RMul(RSub(fpr[i], fpr[i - 1]), tpr[i])

\* one term of the trapezoidal rule
Trapezoid(fpr, tpr, i) ==
    RDiv(RMul(RSub(fpr[i], fpr[i - 1]), RAdd(tpr[i], tpr[i - 1])), R(2))

\* for (i = 1; i < fpr.size(); i++) auc += ...   (i counts from 2 here)
RECURSIVE AucSum(_, _, _)
AucSum(fpr, tpr, i) ==
    IF i < 2 THEN R(0) ELSE RAdd(AucSum(fpr, tpr, i - 1), Trapezoid(fpr, tpr, i))

\* double auc = 0.0; and the loop over the emitted points
ComputeAuc(st) == AucSum(st.fpr, st.tpr, Len(st.fpr))

\* "ROC_CSV/" + algorithm_name + "_" + dataset_name + "_roc.csv"
FileName(algorithm_name, dataset_name) ==
    "ROC_CSV/" \o algorithm_name \o "_" \o dataset_name \o "_roc.csv"

\* a file: whether it exists, its header line and its data rows, each row the
\* three printed texts threshold, fpr, tpr
NoFile == [exists |-> FALSE, header |-> "", rows |-> <<>>]

\* a faulty variant: the row is threshold, tpr, fpr
RocRowsRatesSwapped(st) ==
    [i \in 1..Len(st.fpr) |->
        <<FormatDouble(R(st.thresholds[i])), FormatDouble(st.tpr[i]),
          FormatDouble(st.fpr[i])>>]

\* the rows written by the output loop
RocRows(st) ==
    [i \in 1..Len(st.fpr) |->
        <<FormatDouble(R(st.thresholds[i])), FormatDouble(st.fpr[i]),
          FormatDouble(st.tpr[i])>>]

\* the file left by ofstream outfile(filename), the header and the rows
WrittenFile(st) ==
    [exists |-> TRUE, header |-> "threshold,fpr,tpr", rows |-> RocRows(st)]

\* the messages written to cerr
MsgInvalid == "Error: Invalid input data (scores and labels must be same length and non-empty)"
MsgDegenerate == "Error: Data must contain both positive and negative samples"
MsgOpen == "Error: Could not open file"

\* The outcome of saveRocDataToCSV on (s, l, a, d) when std::sort leaves
\* 'sorted' and the ofstream opens iff openOk, the files being fs before the
\* call: the double returned, the lines written to cerr, the locals at the
\* return and the files after it.
NoCurve == [thresholds |-> <<>>, fpr |-> <<>>, tpr |-> <<>>]

\* a faulty variant: 0.0 is returned when the stream is not open
saveRocDataToCSVOpenFailureZero(s, l, a, d, sorted, openOk, fs) ==
    IF InvalidInput(s, l)
    THEN [auc |-> R(0), cerr |-> <<MsgInvalid>>, pairs |-> <<>>,
          curve |-> NoCurve, files |-> fs]
    ELSE IF TotalPositives(sorted) = 0 \/ TotalNegatives(sorted) = 0
    THEN [auc |-> R(0), cerr |-> <<MsgDegenerate>>, pairs |-> sorted,
          curve |-> NoCurve, files |-> fs]
    ELSE LET st == RocCurve(sorted)
             curve == [thresholds |-> st.thresholds, fpr |-> st.fpr, tpr |-> st.tpr]
         IN  IF ~openOk
             THEN [auc |-> R(0), cerr |-> <<MsgOpen>>, pairs |-> sorted,
                   curve |-> curve, files |-> fs]
             ELSE [auc |-> ComputeAuc(st), cerr |-> <<>>, pairs |-> sorted,
                   curve |-> curve,
                   files |-> [fs EXCEPT ![FileName(a, d)] = WrittenFile(st)]]

\* the outcome of the call
saveRocDataToCSV(s, l, a, d, sorted, openOk, fs) ==
    IF InvalidInput(s, l)
    THEN [auc |-> R(0), cerr |-> <<MsgInvalid>>, pairs |-> <<>>,
          curve |-> NoCurve, files |-> fs]
    ELSE IF TotalPositives(sorted) = 0 \/ TotalNegatives(sorted) = 0
    THEN [auc |-> R(0), cerr |-> <<MsgDegenerate>>, pairs |-> sorted,
          curve |-> NoCurve, files |-> fs]
    ELSE LET st == RocCurve(sorted)
             auc == ComputeAuc(st)
             curve == [thresholds |-> st.thresholds, fpr |-> st.fpr, tpr |-> st.tpr]
         IN  IF ~openOk
             THEN [auc |-> auc, cerr |-> <<MsgOpen>>, pairs |-> sorted,
                   curve |-> curve, files |-> fs]
             ELSE [auc |-> auc, cerr |-> <<>>, pairs |-> sorted,
                   curve |-> curve,
                   files |-> [fs EXCEPT ![FileName(a, d)] = WrittenFile(st)]]

\* ---- evaluateAlgorithm ----
\* the sum of the scores whose label is cls (avgPositiveScore += scores[i])
RECURSIVE SumScores(_, _, _, _)
SumScores(s, l, cls, i) ==
    IF i = 0 THEN 0
    ELSE SumScores(s, l, cls, i - 1) + (IF l[i] = cls THEN s[i] ELSE 0)

\* a faulty variant: the accumulator is divided by the number of all samples
ClassMeanOverAllSamples(s, l, cls) ==
    LET count == Cardinality({i \in 1..Len(s) : l[i] = cls})
        sum == SumScores(s, l, cls, Len(s))
    IN  IF count > 0 THEN Rat(sum, Len(s)) ELSE R(sum)

\* the mean of the scores whose label is cls; the accumulator is divided only
\* when the class is not empty
ClassMean(s, l, cls) ==
    LET count == Cardinality({i \in 1..Len(s) : l[i] = cls})
        sum == SumScores(s, l, cls, Len(s))
    IN  IF count > 0 THEN Rat(sum, count) ELSE R(sum)

\* threshold = (avgPositiveScore + avgNegativeScore) / 2.0
DefaultThreshold(s, l) ==
    RDiv(RAdd(ClassMean(s, l, TRUE), ClassMean(s, l, FALSE)), R(2))

\* a faulty variant: only -1 is taken as "no threshold"
ResolveThresholdOnlyMinusOne(s, l, t) ==
    IF t = R(-1) THEN DefaultThreshold(s, l) ELSE t

\* a faulty variant: the test is threshold <= 0
ResolveThresholdZeroIsUnset(s, l, t) ==
    IF ~RLess(R(0), t) THEN DefaultThreshold(s, l) ELSE t

\* if (threshold < 0) { ... }
ResolveThreshold(s, l, t) ==
    IF RLess(t, R(0)) THEN DefaultThreshold(s, l) ELSE t

\* return {{"error", 1.0}};
ErrorMap == [error |-> R(1)]

\* a faulty variant: the two added entries are stored under each other's key
MergeResultsSwapped(metrics, thr, auc) ==
    [k \in DOMAIN metrics \cup {"threshold", "auc"} |->
        IF k = "auc" THEN thr
        ELSE IF k = "threshold" THEN auc
        ELSE metrics[k]]

\* a faulty variant: the AUC is stored under the key "AUC"
MergeResultsAucKeyMisspelt(metrics, thr, auc) ==
    [k \in DOMAIN metrics \cup {"threshold", "AUC"} |->
        IF k = "AUC" THEN auc
        ELSE IF k = "threshold" THEN thr
        ELSE metrics[k]]

\* results = calculateMetrics(confMat); results["threshold"] = threshold;
\* results["auc"] = auc;
MergeResults(metrics, thr, auc) ==
    [k \in DOMAIN metrics \cup {"threshold", "auc"} |->
        IF k = "auc" THEN auc
        ELSE IF k = "threshold" THEN thr
        ELSE metrics[k]]

\* a faulty variant: the output stream is opened before the validation
RejectedCallAfterOpen(a, d, fs) ==
    [results |-> ErrorMap, cerr |-> <<MsgInvalid>>, pairs |-> <<>>,
     curve |-> NoCurve,
     files |-> [fs EXCEPT ![FileName(a, d)] =
                  [exists |-> TRUE, header |-> "", rows |-> <<>>]]]

\* the early return of evaluateAlgorithm on invalid input, made before
\* anything is computed or opened: the files stay fs
RejectedCall(a, d, fs) ==
    [results |-> ErrorMap, cerr |-> <<MsgInvalid>>, pairs |-> <<>>,
     curve |-> NoCurve, files |-> fs]

\* The outcome of evaluateAlgorithm on (s, l, a, d, t) under the same
\* environment choices as saveRocDataToCSV: the map returned, the lines written
\* to cerr, the locals of the ROC stage and the files after the call.
evaluateAlgorithm(s, l, a, d, t, sorted, openOk, fs) ==
    IF InvalidInput(s, l)
    THEN RejectedCall(a, d, fs)
    ELSE LET thr == ResolveThreshold(s, l, t)
             confMat == calculateConfusionMatrix(s, l, thr)
             metrics == calculateMetrics(confMat)
             roc == saveRocDataToCSV(s, l, a, d, sorted, openOk, fs)
         IN  [results |-> MergeResults(metrics, thr, roc.auc),
              cerr |-> roc.cerr, pairs |-> roc.pairs, curve |-> roc.curve,
              files |-> roc.files]

\* ---- the state ----
VARIABLES
    op,                \* the function called last ("none" before the call)
    scores,            \* its arguments
    labels,
    threshold,
    algorithm_name,
    dataset_name,
    confusionMatrix,   \* the tuple returned by / handed to the matrix functions
    results,           \* the map<string, double> returned
    auc,               \* the double returned by saveRocDataToCSV
    cerr,              \* the lines written to cerr
    score_label_pairs, \* score_label_pairs after std::sort
    curve,             \* the vectors thresholds, fpr, tpr at the return
    files,             \* the files under ROC_CSV/
    previous,          \* the call made before the last one, as it returned
    threads            \* the calls running concurrently, one per thread

vars == <<op, scores, labels, threshold, algorithm_name, dataset_name,
          confusionMatrix, results, auc, cerr, score_label_pairs, curve, files,
          previous, threads>>

\* ---- the inputs ----
ScoreVectors == UNION {[1..n -> 0..MaxScore] : n \in 0..MaxLen}
LabelVectors == UNION {[1..n -> BOOLEAN] : n \in 0..MaxLen}
ThresholdArgs == {R(i) : i \in (0 - MaxNegThreshold)..MaxScore}
CountTuples == (0..MaxCount) \X (0..MaxCount) \X (0..MaxCount) \X (0..MaxCount)
AlgorithmNames == {"LightweightLOF"}
DatasetNames == {"NSL-KDD"}
FileNames == {FileName(a, d) : a \in AlgorithmNames, d \in DatasetNames}

\* an artifact left by an earlier run
PreviousArtifact == WrittenFile(RocCurve(<<<<1, TRUE>>, <<0, FALSE>>>>))

\* no map returned yet
NoResults == [k \in {} |-> R(0)]

\* no call made before
NoPrevious ==
    [op |-> "none", scores |-> <<>>, labels |-> <<>>, threshold |-> R(-1),
     results |-> NoResults, auc |-> R(0), cerr |-> <<>>, pairs |-> <<>>,
     curve |-> NoCurve, files |-> [f \in FileNames |-> NoFile]]

\* a thread that runs no call: where it stands, the arguments of its call, the
\* map it returns, the rows of its curve and the line its stream is at
IdleThread ==
    [pc |-> "idle", scores |-> <<>>, labels |-> <<>>, threshold |-> R(-1),
     results |-> NoResults, rows |-> <<>>, pos |-> 0]

Threads == {1, 2}

Init ==
    /\ op = "none"
    /\ scores = <<>>
    /\ labels = <<>>
    /\ threshold = R(-1)
    /\ algorithm_name = ""
    /\ dataset_name = ""
    /\ confusionMatrix = <<0, 0, 0, 0>>
    /\ results = NoResults
    /\ auc = R(0)
    /\ cerr = <<>>
    /\ score_label_pairs = <<>>
    /\ curve = NoCurve
    /\ files \in [FileNames -> {NoFile, PreviousArtifact}]
    /\ previous = NoPrevious
    /\ threads = [th \in Threads |-> IdleThread]

\* the orders std::sort may leave when the call gets as far as sorting
SortChoices(s, l) ==
    IF InvalidInput(s, l) THEN {<<>>} ELSE SortedPairs(s, l)

\* ---- the calls ----
\* a behaviour makes one call; calculateMetrics may follow
\* calculateConfusionMatrix
Idle == op = "none"

\* calculateConfusionMatrix(s, l, t), called directly on equal-length vectors
CallCalculateConfusionMatrix(s, l, t) ==
    /\ Idle
    /\ Len(s) = Len(l)
    /\ op' = "calculateConfusionMatrix"
    /\ scores' = s
    /\ labels' = l
    /\ threshold' = t
    /\ confusionMatrix' = calculateConfusionMatrix(s, l, t)
    /\ UNCHANGED <<algorithm_name, dataset_name, results, auc, cerr,
                   score_label_pairs, curve, files, previous, threads>>

\* calculateMetrics(cm), called directly on a tuple of counts
CallCalculateMetrics(cm) ==
    /\ Idle
    /\ op' = "calculateMetrics"
    /\ confusionMatrix' = cm
    /\ results' = calculateMetrics(cm)
    /\ UNCHANGED <<scores, labels, threshold, algorithm_name, dataset_name,
                   auc, cerr, score_label_pairs, curve, files, previous, threads>>

\* calculateMetrics called on the tuple calculateConfusionMatrix returned
MetricsOfMatrix ==
    /\ op = "calculateConfusionMatrix"
    /\ op' = "calculateMetrics"
    /\ results' = calculateMetrics(confusionMatrix)
    /\ UNCHANGED <<scores, labels, threshold, algorithm_name, dataset_name,
                   confusionMatrix, auc, cerr, score_label_pairs, curve, files,
                   previous, threads>>

\* the effect of saveRocDataToCSV(s, l, a, d) on the state of the call
DoSaveRocDataToCSV(s, l, a, d) ==
    /\ \E sorted \in SortChoices(s, l), openOk \in BOOLEAN :
        \E r \in {saveRocDataToCSV(s, l, a, d, sorted, openOk, files)} :
            /\ op' = "saveRocDataToCSV"
            /\ scores' = s
            /\ labels' = l
            /\ algorithm_name' = a
            /\ dataset_name' = d
            /\ auc' = r.auc
            /\ cerr' = r.cerr
            /\ score_label_pairs' = r.pairs
            /\ curve' = r.curve
            /\ files' = r.files
    /\ UNCHANGED <<threshold, confusionMatrix, results, threads>>

\* saveRocDataToCSV(s, l, a, d), called directly
CallSaveRocDataToCSV(s, l, a, d) ==
    /\ Idle
    /\ DoSaveRocDataToCSV(s, l, a, d)
    /\ UNCHANGED previous

\* the effect of evaluateAlgorithm(s, l, a, d, t) on the state of the call
DoEvaluateAlgorithm(s, l, a, d, t) ==
    /\ \E sorted \in SortChoices(s, l), openOk \in BOOLEAN :
        \E r \in {evaluateAlgorithm(s, l, a, d, t, sorted, openOk, files)} :
            /\ op' = "evaluateAlgorithm"
            /\ scores' = s
            /\ labels' = l
            /\ algorithm_name' = a
            /\ dataset_name' = d
            /\ threshold' = t
            /\ results' = r.results
            /\ cerr' = r.cerr
            /\ score_label_pairs' = r.pairs
            /\ curve' = r.curve
            /\ files' = r.files
    /\ UNCHANGED <<confusionMatrix, auc, threads>>

\* evaluateAlgorithm(s, l, a, d, t)
CallEvaluateAlgorithm(s, l, a, d, t) ==
    /\ Idle
    /\ DoEvaluateAlgorithm(s, l, a, d, t)
    /\ UNCHANGED previous

Next ==
    \/ /\ Idle
       /\ \E s \in ScoreVectors, l \in LabelVectors, t \in ThresholdArgs :
            CallCalculateConfusionMatrix(s, l, t)
    \/ /\ Idle
       /\ \E cm \in CountTuples : CallCalculateMetrics(cm)
    \/ MetricsOfMatrix
    \/ /\ Idle
       /\ \E s \in ScoreVectors, l \in LabelVectors,
             a \in AlgorithmNames, d \in DatasetNames :
            CallSaveRocDataToCSV(s, l, a, d)
    \/ /\ Idle
       /\ \E s \in ScoreVectors, l \in LabelVectors,
             a \in AlgorithmNames, d \in DatasetNames, t \in ThresholdArgs :
            CallEvaluateAlgorithm(s, l, a, d, t)

Spec == Init /\ [][Next]_vars

\* ---- two calls in a row ----
\* bounds of the runs that make a second call
PairMaxLen == 2      \* longest vector of the first call
PairMaxScore == 1    \* its scores are drawn from 0..PairMaxScore

PairScoreVectors == UNION {[1..n -> 0..PairMaxScore] : n \in 0..PairMaxLen}
PairLabelVectors == UNION {[1..n -> BOOLEAN] : n \in 0..PairMaxLen}
PairThresholdArgs == {R(i) : i \in (0 - MaxNegThreshold)..PairMaxScore}

\* the last call as it returned
Snapshot ==
    [op |-> op, scores |-> scores, labels |-> labels, threshold |-> threshold,
     results |-> results, auc |-> auc, cerr |-> cerr,
     pairs |-> score_label_pairs, curve |-> curve, files |-> files]

\* a first call of saveRocDataToCSV or evaluateAlgorithm has returned
Returned ==
    /\ op \in {"saveRocDataToCSV", "evaluateAlgorithm"}
    /\ previous.op = "none"

\* the call is made once more with the same arguments
RepeatCall ==
    /\ Returned
    /\ previous' = Snapshot
    /\ IF op = "evaluateAlgorithm"
       THEN DoEvaluateAlgorithm(scores, labels, algorithm_name, dataset_name,
                                threshold)
       ELSE DoSaveRocDataToCSV(scores, labels, algorithm_name, dataset_name)

\* evaluateAlgorithm is called once more with another threshold
CallWithOtherThreshold(t) ==
    /\ Returned
    /\ op = "evaluateAlgorithm"
    /\ t # threshold
    /\ previous' = Snapshot
    /\ DoEvaluateAlgorithm(scores, labels, algorithm_name, dataset_name, t)

\* the rearrangements of n samples
Rearrangements(n) ==
    {q \in [1..n -> 1..n] : \A i, j \in 1..n : i # j => q[i] # q[j]}

\* the call is made once more with the samples in the order q
CallReordered(q) ==
    /\ Returned
    /\ ~InvalidInput(scores, labels)
    /\ previous' = Snapshot
    /\ LET s == [i \in 1..Len(scores) |-> scores[q[i]]]
           l == [i \in 1..Len(labels) |-> labels[q[i]]]
       IN  IF op = "evaluateAlgorithm"
           THEN DoEvaluateAlgorithm(s, l, algorithm_name, dataset_name, threshold)
           ELSE DoSaveRocDataToCSV(s, l, algorithm_name, dataset_name)

\* the call is made once more with every label inverted
CallInverted ==
    /\ Returned
    /\ ~InvalidInput(scores, labels)
    /\ previous' = Snapshot
    /\ LET l == [i \in 1..Len(labels) |-> ~labels[i]]
       IN  IF op = "evaluateAlgorithm"
           THEN DoEvaluateAlgorithm(scores, l, algorithm_name, dataset_name,
                                    threshold)
           ELSE DoSaveRocDataToCSV(scores, l, algorithm_name, dataset_name)

NextTwice ==
    \/ /\ Idle
       /\ \E s \in PairScoreVectors, l \in PairLabelVectors,
             a \in AlgorithmNames, d \in DatasetNames :
            CallSaveRocDataToCSV(s, l, a, d)
    \/ /\ Idle
       /\ \E s \in PairScoreVectors, l \in PairLabelVectors,
             a \in AlgorithmNames, d \in DatasetNames, t \in PairThresholdArgs :
            CallEvaluateAlgorithm(s, l, a, d, t)
    \/ RepeatCall
    \/ /\ Returned
       /\ \E t \in PairThresholdArgs : CallWithOtherThreshold(t)
    \/ /\ Returned
       /\ \E q \in Rearrangements(Len(scores)) : CallReordered(q)
    \/ CallInverted

SpecTwice == Init /\ [][NextTwice]_vars

\* ---- concurrent calls ----
\* Threads that each call evaluateAlgorithm once, on vectors of their own and
\* with the same two names. Everything a call computes is held in locals, so
\* the computation is one step; the stream is opened, and each line is
\* written and flushed by endl, in steps of its own. Each ofstream has its own
\* position in the file; a line is taken as one unit of the file.
ConcInputs ==
    {[scores |-> <<1, 0>>, labels |-> <<TRUE, FALSE>>, threshold |-> R(-1)],
     [scores |-> <<2, 1, 0>>, labels |-> <<TRUE, FALSE, TRUE>>,
      threshold |-> R(-1)],
     [scores |-> <<1, 1>>, labels |-> <<TRUE, FALSE>>, threshold |-> R(1)],
     [scores |-> <<1>>, labels |-> <<TRUE>>, threshold |-> R(-1)],
     [scores |-> <<1>>, labels |-> <<>>, threshold |-> R(-1)]}

ConcAlgorithm == "LightweightLOF"
ConcDataset == "NSL-KDD"

\* a line of the file that lies before the written ones and was never
\* written: its three texts are no number that operator<< prints
HoleText == <<0, -1>>
HoleRow == <<HoleText, HoleText, HoleText>>

\* the rows after one row is written at line p
WriteAt(rows, p, row) ==
    [i \in 1..(IF Len(rows) > p THEN Len(rows) ELSE p) |->
        IF i = p THEN row
        ELSE IF i <= Len(rows) THEN rows[i]
        ELSE HoleRow]

\* the call is entered and runs up to the construction of the ofstream, or
\* returns before it on invalid or single-class input
ThreadBegin(th, in) ==
    /\ threads[th].pc = "idle"
    /\ \E sorted \in SortChoices(in.scores, in.labels) :
         \E r \in {evaluateAlgorithm(in.scores, in.labels, ConcAlgorithm,
                                     ConcDataset, in.threshold, sorted, TRUE,
                                     files)} :
            /\ threads' = [threads EXCEPT ![th] =
                 [pc |-> IF r.curve = NoCurve THEN "done" ELSE "open",
                  scores |-> in.scores, labels |-> in.labels,
                  threshold |-> in.threshold, results |-> r.results,
                  rows |-> IF r.curve = NoCurve THEN <<>> ELSE RocRows(r.curve),
                  pos |-> 0]]
            /\ cerr' = cerr \o r.cerr
    /\ UNCHANGED <<op, scores, labels, threshold, algorithm_name, dataset_name,
                   confusionMatrix, results, auc, score_label_pairs, curve,
                   files, previous>>

\* ofstream outfile(filename): the file is created or truncated, or the
\* stream fails to open and the call returns
ThreadOpen(th, openOk) ==
    /\ threads[th].pc = "open"
    /\ IF openOk
       THEN /\ files' = [files EXCEPT ![FileName(ConcAlgorithm, ConcDataset)] =
                           [exists |-> TRUE, header |-> "", rows |-> <<>>]]
            /\ threads' = [threads EXCEPT ![th].pc = "header"]
            /\ UNCHANGED cerr
       ELSE /\ threads' = [threads EXCEPT ![th].pc = "done"]
            /\ cerr' = Append(cerr, MsgOpen)
            /\ UNCHANGED files
    /\ UNCHANGED <<op, scores, labels, threshold, algorithm_name, dataset_name,
                   confusionMatrix, results, auc, score_label_pairs, curve,
                   previous>>

\* outfile << "threshold,fpr,tpr" << endl;
ThreadWriteHeader(th) ==
    /\ threads[th].pc = "header"
    /\ files' = [files EXCEPT ![FileName(ConcAlgorithm, ConcDataset)].header =
                    "threshold,fpr,tpr"]
    /\ threads' = [threads EXCEPT ![th].pc = "rows", ![th].pos = 1]
    /\ UNCHANGED <<op, scores, labels, threshold, algorithm_name, dataset_name,
                   confusionMatrix, results, auc, cerr, score_label_pairs,
                   curve, previous>>

\* one turn of the output loop; after the last one the stream is closed and
\* the call returns
ThreadWriteRow(th) ==
    /\ threads[th].pc = "rows"
    /\ LET t == threads[th]
       IN  /\ files' = [files EXCEPT
                  ![FileName(ConcAlgorithm, ConcDataset)].rows =
                      WriteAt(@, t.pos, t.rows[t.pos])]
           /\ threads' = [threads EXCEPT
                  ![th].pos = @ + 1,
                  ![th].pc = IF t.pos = Len(t.rows) THEN "done" ELSE "rows"]
    /\ UNCHANGED <<op, scores, labels, threshold, algorithm_name, dataset_name,
                   confusionMatrix, results, auc, cerr, score_label_pairs,
                   curve, previous>>

NextConc ==
    \/ \E th \in Threads, in \in ConcInputs : ThreadBegin(th, in)
    \/ \E th \in Threads, openOk \in BOOLEAN : ThreadOpen(th, openOk)
    \/ \E th \in Threads : ThreadWriteHeader(th)
    \/ \E th \in Threads : ThreadWriteRow(th)

SpecConc == Init /\ [][NextConc]_vars

\* ---- one call of the ROC generator, of the metrics or of the evaluation ----
\* the thresholds of the evaluation: the default argument and a supplied one
GuardThresholdArgs == {R(-1), R(1)}

NextRoc ==
    \/ /\ Idle
       /\ \E s \in ScoreVectors, l \in LabelVectors,
             a \in AlgorithmNames, d \in DatasetNames :
            CallSaveRocDataToCSV(s, l, a, d)
    \/ /\ Idle
       /\ \E cm \in CountTuples : CallCalculateMetrics(cm)
    \/ /\ Idle
       /\ \E s \in ScoreVectors, l \in LabelVectors,
             a \in AlgorithmNames, d \in DatasetNames,
             t \in GuardThresholdArgs :
            CallEvaluateAlgorithm(s, l, a, d, t)

SpecRoc == Init /\ [][NextRoc]_vars

\* ---- the divisions a call executes ----
\* the divisor, when the division guarded by 'taken' is executed
DivisorIf(taken, divisor) == IF taken THEN {divisor} ELSE {}

\* a faulty variant: tp / static_cast<double>(tp + fn) is not guarded
MetricsDivisorsRecallUnguarded(cm) ==
    LET tp == cm[1]
        fp == cm[2]
        tn == cm[3]
        fn == cm[4]
        sum == RAdd(Precision(tp, fp), Recall(tp, fn))
    IN  DivisorIf(tp + fp + tn + fn > 0, R(tp + fp + tn + fn))
          \cup DivisorIf(tp + fp > 0, R(tp + fp))
          \cup {R(tp + fn)}
          \cup DivisorIf(tn + fp > 0, R(tn + fp))
          \cup DivisorIf(RLess(R(0), sum), sum)

\* the divisors of the divisions calculateMetrics executes: each ratio is
\* divided only in the branch of its conditional that its test selects
MetricsDivisors(cm) ==
    LET tp == cm[1]
        fp == cm[2]
        tn == cm[3]
        fn == cm[4]
        sum == RAdd(Precision(tp, fp), Recall(tp, fn))
    IN  DivisorIf(tp + fp + tn + fn > 0, R(tp + fp + tn + fn))
          \cup DivisorIf(tp + fp > 0, R(tp + fp))
          \cup DivisorIf(tp + fn > 0, R(tp + fn))
          \cup DivisorIf(tn + fp > 0, R(tn + fp))
          \cup DivisorIf(RLess(R(0), sum), sum)

\* posCount / negCount of the default threshold
ClassCount(l, cls) == Cardinality({i \in 1..Len(l) : l[i] = cls})

\* the divisors of the block that derives the threshold: the two class
\* means, each divided only when its count is positive, and the halving
ThresholdDivisors(l, t) ==
    IF RLess(t, R(0))
    THEN DivisorIf(ClassCount(l, TRUE) > 0, R(ClassCount(l, TRUE)))
           \cup DivisorIf(ClassCount(l, FALSE) > 0, R(ClassCount(l, FALSE)))
           \cup {R(2)}
    ELSE {}

\* the divisors of saveRocDataToCSV: none before the two early returns, then
\* total_negatives and total_positives of the points and 2.0 of the AUC
RocDivisors(s, l) ==
    IF InvalidInput(s, l) THEN {}
    ELSE IF ClassCount(l, TRUE) = 0 \/ ClassCount(l, FALSE) = 0 THEN {}
    ELSE {R(ClassCount(l, FALSE)), R(ClassCount(l, TRUE)), R(2)}

\* the divisors of evaluateAlgorithm: none when the input is rejected
EvaluateDivisors(s, l, t) ==
    IF InvalidInput(s, l) THEN {}
    ELSE ThresholdDivisors(l, t)
           \cup MetricsDivisors(
                  calculateConfusionMatrix(s, l, ResolveThreshold(s, l, t)))
           \cup RocDivisors(s, l)

\* the divisors of the call that was made
Divisors ==
    IF op = "calculateMetrics" THEN MetricsDivisors(confusionMatrix)
    ELSE IF op = "saveRocDataToCSV" THEN RocDivisors(scores, labels)
    ELSE IF op = "evaluateAlgorithm"
    THEN EvaluateDivisors(scores, labels, threshold)
    ELSE {}

\* ---- the properties ----
\* x <= y on doubles
RLeq(x, y) == x[1] * y[2] <= y[1] * x[2]

\* a double within [0, 1]
InUnit(x) == 0 <= x[1] /\ x[1] <= x[2]

\* the double x equals num / den (den > 0)
IsRatio(x, num, den) == x[2] > 0 /\ x[1] * den = num * x[2]

\* x equals num / den, or 0.0 when den is zero
IsGuardedRatio(x, num, den) ==
    IF den = 0 THEN x = <<0, 1>> ELSE IsRatio(x, num, den)

AllLabelsEqual(l) == \A i, j \in 1..Len(l) : l[i] = l[j]

MixedLabels(l) == (\E i \in 1..Len(l) : l[i]) /\ (\E i \in 1..Len(l) : ~l[i])

ResultKeys == MetricKeys \cup {"threshold", "auc"}

\* C1: the four counts returned by calculateConfusionMatrix on equal-length
\* vectors are non-negative and sum to the number of samples.
C1_CountsSumToSamples ==
    op = "calculateConfusionMatrix" =>
        /\ \A k \in 1..4 : confusionMatrix[k] >= 0
        /\ confusionMatrix[1] + confusionMatrix[2] + confusionMatrix[3]
             + confusionMatrix[4] = Len(scores)

C1_Witness ==
    /\ op = "calculateConfusionMatrix"
    /\ Len(scores) = 3
    /\ confusionMatrix[1] = 1
    /\ confusionMatrix[3] = 1
    /\ confusionMatrix[4] = 1

\* C2: calculateConfusionMatrix predicts a sample positive iff its score is
\* strictly greater than the threshold; a sample whose score equals the
\* threshold is a true negative or a false negative.
C2_StrictThreshold ==
    op = "calculateConfusionMatrix" =>
        LET above(i) == scores[i] * threshold[2] > threshold[1]
            n(isAnomaly, predicted) ==
                Cardinality({i \in 1..Len(scores) :
                               labels[i] = isAnomaly /\ above(i) = predicted})
        IN  confusionMatrix =
                <<n(TRUE, TRUE), n(FALSE, TRUE), n(FALSE, FALSE), n(TRUE, FALSE)>>

C2_Witness ==
    /\ op = "calculateConfusionMatrix"
    /\ Len(scores) = 2
    /\ \A i \in 1..2 : R(scores[i]) = threshold
    /\ confusionMatrix = <<0, 0, 1, 1>>

\* C3: on vectors of different length or empty vectors evaluateAlgorithm
\* returns the map holding only the error marker, sorts and computes nothing
\* and leaves every file as it was.
C3_InvalidInputAborts ==
    [][(op' = "evaluateAlgorithm"
          /\ (Len(scores') # Len(labels') \/ Len(scores') = 0))
       => (/\ DOMAIN results' = {"error"}
           /\ results'["error"] = <<1, 1>>
           /\ score_label_pairs' = <<>>
           /\ curve' = NoCurve
           /\ files' = files)]_vars

C3_Witness ==
    /\ op = "evaluateAlgorithm"
    /\ Len(scores) = 3
    /\ Len(labels) = 2
    /\ files[FileName(algorithm_name, dataset_name)] = PreviousArtifact

\* the doubles saveRocDataToCSV returns as the AUC of an input that has both
\* classes
SuccessfulAucValues ==
    UNION {{ComputeAuc(RocCurve(sorted)) : sorted \in SortedPairs(in[1], in[2])} :
             in \in {x \in ScoreVectors \X LabelVectors :
                       Len(x[1]) = Len(x[2]) /\ MixedLabels(x[2])}}

\* C4: when every label is the same, saveRocDataToCSV ends with an outcome
\* its caller can tell apart from every AUC computed for a valid input.
C4_DegenerateDistinguishable ==
    (op = "saveRocDataToCSV" /\ labels # <<>> /\ Len(scores) = Len(labels)
        /\ AllLabelsEqual(labels))
    => auc \notin SuccessfulAucValues

\* C5: evaluateAlgorithm returns either a full result of stages that all
\* succeeded or an error; when the ROC stage fails on a single-class label set
\* the map returned has no metric, threshold or auc entry.
C5_NoMixOfResultAndError ==
    (op = "evaluateAlgorithm" /\ cerr = <<MsgDegenerate>>)
    => DOMAIN results \cap ResultKeys = {}

\* C6: calculateConfusionMatrix followed by calculateMetrics gives the full
\* metrics map, no error, on labels that are all true or all false, and the
\* ratios whose denominator is zero are 0.0.
C6_SingleClassMetricsSucceed ==
    (op = "calculateMetrics" /\ scores # <<>> /\ AllLabelsEqual(labels))
    => /\ DOMAIN results = MetricKeys
       /\ confusionMatrix[1] + confusionMatrix[2] = 0
            => results["precision"] = <<0, 1>>
       /\ confusionMatrix[1] + confusionMatrix[4] = 0
            => results["recall"] = <<0, 1>>
       /\ confusionMatrix[3] + confusionMatrix[2] = 0
            => results["specificity"] = <<0, 1>>

C6_Witness ==
    /\ op = "calculateMetrics"
    /\ labels = <<FALSE, FALSE, FALSE>>
    /\ confusionMatrix = <<0, 1, 2, 0>>
    /\ results["recall"] = <<0, 1>>

\* C7: calculateMetrics returns accuracy, precision, recall and specificity
\* as the ratios of the counts, each 0.0 when its denominator is zero, and
\* the four counts unchanged.
C7_MetricFormulas ==
    op = "calculateMetrics" =>
        LET tp == confusionMatrix[1]
            fp == confusionMatrix[2]
            tn == confusionMatrix[3]
            fn == confusionMatrix[4]
        IN  /\ IsGuardedRatio(results["accuracy"], tp + tn, tp + fp + tn + fn)
            /\ IsGuardedRatio(results["precision"], tp, tp + fp)
            /\ IsGuardedRatio(results["recall"], tp, tp + fn)
            /\ IsGuardedRatio(results["specificity"], tn, tn + fp)
            /\ results["true_positives"] = <<tp, 1>>
            /\ results["false_positives"] = <<fp, 1>>
            /\ results["true_negatives"] = <<tn, 1>>
            /\ results["false_negatives"] = <<fn, 1>>

C7_Witness ==
    /\ op = "calculateMetrics"
    /\ confusionMatrix = <<2, 1, 0, 0>>
    /\ results["precision"] = <<2, 3>>
    /\ results["recall"] = <<1, 1>>
    /\ results["specificity"] = <<0, 1>>

\* C8: accuracy, precision, recall, specificity and f1_score returned by
\* calculateMetrics lie in [0, 1].
C8_MetricsInUnitInterval ==
    op = "calculateMetrics" =>
        \A k \in {"accuracy", "precision", "recall", "specificity", "f1_score"} :
            InUnit(results[k])

C8_Witness ==
    /\ op = "calculateMetrics"
    /\ confusionMatrix = <<3, 0, 3, 0>>
    /\ results["f1_score"] = <<1, 1>>
    /\ results["accuracy"] = <<1, 1>>

\* C9: f1_score is 2 * precision * recall / (precision + recall) when
\* precision + recall > 0 and 0.0 when precision + recall = 0, which is the
\* case exactly when TP = 0.
C9_F1Score ==
    op = "calculateMetrics" =>
        LET p == results["precision"]
            r == results["recall"]
            f == results["f1_score"]
            sumZero == p[1] = 0 /\ r[1] = 0
        IN  /\ sumZero <=> confusionMatrix[1] = 0
            /\ sumZero => f = <<0, 1>>
            /\ ~sumZero =>
                 /\ f[2] > 0
                 /\ f[1] * (p[1] * r[2] + r[1] * p[2]) = 2 * p[1] * r[1] * f[2]

C9_Witness ==
    /\ op = "calculateMetrics"
    /\ confusionMatrix = <<1, 1, 0, 2>>
    /\ results["f1_score"] = <<2, 5>>

\* C10: for an input with both classes the fpr values and the tpr values of
\* the emitted ROC points are non-decreasing along the sequence and lie in
\* [0, 1].
C10_RocMonotone ==
    (op \in {"saveRocDataToCSV", "evaluateAlgorithm"} /\ curve # NoCurve)
    => /\ Len(curve.fpr) = Len(curve.tpr)
       /\ \A i \in 1..Len(curve.fpr) : InUnit(curve.fpr[i]) /\ InUnit(curve.tpr[i])
       /\ \A i \in 2..Len(curve.fpr) :
            /\ RLeq(curve.fpr[i - 1], curve.fpr[i])
            /\ RLeq(curve.tpr[i - 1], curve.tpr[i])

C10_Witness ==
    /\ op = "saveRocDataToCSV"
    /\ Len(curve.fpr) = 5
    /\ curve.fpr[3] = <<1, 2>>
    /\ curve.tpr[4] = <<1, 1>>
    /\ curve.fpr[4] = <<1, 2>>

\* the least score of a non-empty vector
MinScore(s) == CHOOSE x \in {s[i] : i \in 1..Len(s)} : \A i \in 1..Len(s) : x <= s[i]

\* the call computed a ROC curve
CurveEmitted == op \in {"saveRocDataToCSV", "evaluateAlgorithm"} /\ curve # NoCurve

\* C11: for an input with both classes the first emitted ROC point is
\* (numeric_limits<double>::max(), 0, 0) and the last one is
\* (least score of the input, 1, 1).
C11_RocEndPoints ==
    CurveEmitted =>
        LET n == Len(curve.thresholds)
        IN  /\ n >= 2
            /\ Len(curve.fpr) = n
            /\ Len(curve.tpr) = n
            /\ curve.thresholds[1] = DBL_MAX
            /\ curve.fpr[1] = <<0, 1>>
            /\ curve.tpr[1] = <<0, 1>>
            /\ curve.thresholds[n] = MinScore(scores)
            /\ curve.fpr[n] = <<1, 1>>
            /\ curve.tpr[n] = <<1, 1>>

C11_Witness ==
    /\ op = "saveRocDataToCSV"
    /\ scores = <<1, 2, 1>>
    /\ labels = <<TRUE, FALSE, FALSE>>
    /\ Len(curve.thresholds) = 4
    /\ curve.thresholds[4] = 1

\* C12: for an input with both classes the AUC returned by saveRocDataToCSV,
\* and stored under "auc" by evaluateAlgorithm, lies in [0, 1].
C12_AucInUnitInterval ==
    /\ (op = "saveRocDataToCSV" /\ curve # NoCurve) => InUnit(auc)
    /\ (op = "evaluateAlgorithm" /\ curve # NoCurve) => InUnit(results["auc"])

C12_Witness ==
    /\ op = "evaluateAlgorithm"
    /\ curve # NoCurve
    /\ results["auc"] = <<3, 4>>

\* C13: on a successful evaluation the map returned by evaluateAlgorithm has
\* exactly the eleven keys true_positives, false_positives, true_negatives,
\* false_negatives, accuracy, precision, recall, specificity, f1_score,
\* threshold and auc.
C13_ElevenKeys ==
    (op = "evaluateAlgorithm" /\ Len(scores) = Len(labels) /\ scores # <<>>)
    => DOMAIN results =
         {"true_positives", "false_positives", "true_negatives",
          "false_negatives", "accuracy", "precision", "recall", "specificity",
          "f1_score", "threshold", "auc"}

C13_Witness ==
    /\ op = "evaluateAlgorithm"
    /\ cerr = <<>>
    /\ files[FileName(algorithm_name, dataset_name)].exists
    /\ Cardinality(DOMAIN results) = 11

\* the sum of the scores labelled cls, counted score unit by score unit
ScoreMass(s, l, cls) ==
    Cardinality({x \in (1..Len(s)) \X (1..(MaxScore + 1)) :
                   l[x[1]] = cls /\ s[x[1]] >= x[2]})

ClassSize(l, cls) == Cardinality({i \in 1..Len(l) : l[i] = cls})

\* x is the midpoint of the two class means, an empty class counting as 0.0
IsMeanMidpoint(x, s, l) ==
    LET np == ClassSize(l, TRUE)
        nn == ClassSize(l, FALSE)
        sp == ScoreMass(s, l, TRUE)
        sn == ScoreMass(s, l, FALSE)
    IN  IF np > 0 /\ nn > 0 THEN IsRatio(x, sp * nn + sn * np, 2 * np * nn)
        ELSE IF np > 0 THEN IsRatio(x, sp, 2 * np)
        ELSE IsRatio(x, sn, 2 * nn)

\* C14: called without a threshold (the default argument -1),
\* evaluateAlgorithm uses and reports the midpoint of the mean score of the
\* positive samples and the mean score of the negative samples, a class
\* without samples contributing 0.0.
C14_DefaultThreshold ==
    (op = "evaluateAlgorithm" /\ Len(scores) = Len(labels) /\ scores # <<>>
        /\ threshold = <<-1, 1>>)
    => /\ IsMeanMidpoint(results["threshold"], scores, labels)
       /\ LET t == results["threshold"]
              above(i) == scores[i] * t[2] > t[1]
          IN  /\ results["true_positives"] =
                   <<Cardinality({i \in 1..Len(scores) : labels[i] /\ above(i)}), 1>>
              /\ results["false_positives"] =
                   <<Cardinality({i \in 1..Len(scores) : ~labels[i] /\ above(i)}), 1>>

C14_Witness ==
    /\ op = "evaluateAlgorithm"
    /\ threshold = <<-1, 1>>
    /\ scores = <<2, 1, 0>>
    /\ labels = <<TRUE, TRUE, FALSE>>
    /\ results["threshold"] = <<3, 4>>

\* C15: called with a threshold t >= 0, evaluateAlgorithm reports t as the
\* threshold and the four counts of calculateConfusionMatrix(scores, labels, t),
\* also for t = 0.
C15_SuppliedThreshold ==
    (op = "evaluateAlgorithm" /\ Len(scores) = Len(labels) /\ scores # <<>>
        /\ threshold[1] >= 0)
    => LET cm == calculateConfusionMatrix(scores, labels, threshold)
       IN  /\ results["threshold"] = threshold
           /\ results["true_positives"] = <<cm[1], 1>>
           /\ results["false_positives"] = <<cm[2], 1>>
           /\ results["true_negatives"] = <<cm[3], 1>>
           /\ results["false_negatives"] = <<cm[4], 1>>

C15_Witness ==
    /\ op = "evaluateAlgorithm"
    /\ threshold = <<0, 1>>
    /\ scores = <<1, 0>>
    /\ labels = <<TRUE, FALSE>>
    /\ results["threshold"] = <<0, 1>>
    /\ results["true_positives"] = <<1, 1>>
    /\ results["true_negatives"] = <<1, 1>>

\* the last two calls were evaluateAlgorithm on the same valid vectors
SameInputTwice ==
    /\ op = "evaluateAlgorithm"
    /\ previous.op = "evaluateAlgorithm"
    /\ scores = previous.scores
    /\ labels = previous.labels
    /\ Len(scores) = Len(labels)
    /\ scores # <<>>

C17_AucIgnoresThreshold ==
    (SameInputTwice /\ threshold # previous.threshold)
    => /\ results["auc"] = previous.results["auc"]
       /\ curve = previous.curve
       /\ (cerr = <<>> /\ previous.cerr = <<>> /\ curve # NoCurve)
            => files = previous.files

C17_Witness ==
    /\ SameInputTwice
    /\ previous.threshold = <<0, 1>>
    /\ threshold = <<1, 1>>
    /\ results["true_positives"] # previous.results["true_positives"]
    /\ results["auc"] = <<1, 1>>
    /\ cerr = <<>>
    /\ previous.cerr = <<>>

\* C18: two calls of evaluateAlgorithm with identical scores, labels and
\* threshold return identical maps and emit identical ROC points, whatever
\* the files held before and whatever order the sort left.
C18_Deterministic ==
    (SameInputTwice /\ threshold = previous.threshold)
    => /\ results = previous.results
       /\ curve = previous.curve

C18_Witness ==
    /\ SameInputTwice
    /\ threshold = previous.threshold
    /\ score_label_pairs # previous.pairs
    /\ curve # NoCurve
    /\ results = previous.results

\* the two vectors hold the same samples, in any order
SameSamples(s1, l1, s2, l2) ==
    /\ Len(s1) = Len(l1)
    /\ Len(s2) = Len(l2)
    /\ Len(s1) = Len(s2)
    /\ \A i \in 1..Len(s1) :
         Cardinality({j \in 1..Len(s1) : s1[j] = s1[i] /\ l1[j] = l1[i]})
           = Cardinality({j \in 1..Len(s2) : s2[j] = s1[i] /\ l2[j] = l1[i]})

\* C19: the emitted ROC points and the AUC do not depend on the order of the
\* samples: two calls whose inputs hold the same (score, label) pairs emit
\* the same points and return the same AUC.
C19_OrderInvariant ==
    (/\ op \in {"saveRocDataToCSV", "evaluateAlgorithm"}
     /\ previous.op = op
     /\ scores # <<>>
     /\ SameSamples(scores, labels, previous.scores, previous.labels))
    => /\ curve = previous.curve
       /\ op = "saveRocDataToCSV" => auc = previous.auc
       /\ op = "evaluateAlgorithm" => results["auc"] = previous.results["auc"]

C19_Witness ==
    /\ op = "saveRocDataToCSV"
    /\ previous.op = "saveRocDataToCSV"
    /\ previous.scores = <<1, 1>>
    /\ previous.labels = <<TRUE, FALSE>>
    /\ labels = <<FALSE, TRUE>>
    /\ score_label_pairs = previous.pairs
    /\ auc = <<1, 2>>
    /\ Len(curve.fpr) = 3

\* every thread has returned
AllReturned == \A th \in Threads : threads[th].pc = "done"

\* the maps a call on the arguments of thread th returns when it runs alone
ResultsAlone(th) ==
    LET t == threads[th]
    IN  {evaluateAlgorithm(t.scores, t.labels, ConcAlgorithm, ConcDataset,
                           t.threshold, sorted, openOk,
                           [f \in FileNames |-> NoFile]).results :
            sorted \in SortChoices(t.scores, t.labels), openOk \in BOOLEAN}

\* each thread returned the map its call returns when run alone
ReturnsAsAlone ==
    \A th \in Threads :
        threads[th].pc = "done" => threads[th].results \in ResultsAlone(th)

\* each file is as it was before the calls or holds the header and exactly
\* the rows of the curve of one call
ArtifactOfOneCall ==
    \A f \in FileNames :
        \/ files[f] \in {NoFile, PreviousArtifact}
        \/ \E th \in Threads :
              /\ threads[th].rows # <<>>
              /\ files[f] = [exists |-> TRUE, header |-> "threshold,fpr,tpr",
                             rows |-> threads[th].rows]

\* C20: concurrent calls of evaluateAlgorithm share no mutable state: once
\* all have returned, each has returned the map it returns when run alone and
\* every ROC file holds exactly the rows of one call's curve, also when the
\* calls use the same algorithm and dataset names.
C20_ConcurrentCallsIndependent ==
    AllReturned => (ReturnsAsAlone /\ ArtifactOfOneCall)
\* saveRocDataToCSV returned after writing the file
RocSaved == op = "saveRocDataToCSV" /\ curve # NoCurve /\ cerr = <<>>

\* C21: on success saveRocDataToCSV leaves in
\* ROC_CSV/<algorithm_name>_<dataset_name>_roc.csv the header
\* threshold,fpr,tpr and one row per emitted point, in the order of emission,
\* each row the printed threshold, fpr and tpr of its point; the first row
\* carries the largest finite double and the rates 0 and 0.
C21_ArtifactRows ==
    RocSaved =>
        LET f == files["ROC_CSV/" \o algorithm_name \o "_" \o dataset_name
                       \o "_roc.csv"]
        IN  /\ f.exists
            /\ f.header = "threshold,fpr,tpr"
            /\ Len(f.rows) = Len(curve.thresholds)
            /\ \A i \in 1..Len(f.rows) :
                 f.rows[i] = <<FormatDouble(R(curve.thresholds[i])),
                               FormatDouble(curve.fpr[i]),
                               FormatDouble(curve.tpr[i])>>
            /\ f.rows[1] = <<FormatDouble(R(DBL_MAX)), <<0, 0>>, <<0, 0>>>>

C21_Witness ==
    /\ RocSaved
    /\ scores = <<2, 1, 0>>
    /\ labels = <<TRUE, FALSE, TRUE>>
    /\ Len(files["ROC_CSV/LightweightLOF_NSL-KDD_roc.csv"].rows) = 5
    /\ files["ROC_CSV/LightweightLOF_NSL-KDD_roc.csv"].rows[4]
         = <<<<1, 0>>, <<1, 0>>, <<5, -1>>>>

PerfectSeparation(s, l) ==
    \A i, j \in 1..Len(s) : (l[i] /\ ~l[j]) => s[i] > s[j]

\* C23: for an input with both classes in which every positive sample scores
\* strictly higher than every negative sample, the AUC is exactly 1, as
\* returned by saveRocDataToCSV and as stored by evaluateAlgorithm.
C23_PerfectSeparationAucOne ==
    (CurveEmitted /\ PerfectSeparation(scores, labels))
    => /\ op = "saveRocDataToCSV" => auc = <<1, 1>>
       /\ op = "evaluateAlgorithm" => results["auc"] = <<1, 1>>

C23_Witness ==
    /\ op = "saveRocDataToCSV"
    /\ curve # NoCurve
    /\ scores = <<1, 2, 0>>
    /\ labels = <<TRUE, TRUE, FALSE>>
    /\ auc = <<1, 1>>

\* the values that occur in a vector of scores
ScoreValues(s) == {s[i] : i \in 1..Len(s)}

\* C24: every emitted point whose threshold t is a score of the input is the
\* operating point of calculateConfusionMatrix(scores, labels, t):
\* fpr = FP/(FP+TN) and tpr = TP/(TP+FN) under the rule score > t.
C24_PointsMatchDecisionRule ==
    CurveEmitted =>
        \A i \in 1..Len(curve.thresholds) :
            curve.thresholds[i] \in ScoreValues(scores) =>
                LET cm == calculateConfusionMatrix(scores, labels,
                                                   R(curve.thresholds[i]))
                IN  /\ curve.fpr[i] = Rat(cm[2], cm[2] + cm[3])
                    /\ curve.tpr[i] = Rat(cm[1], cm[1] + cm[4])

\* C25: for an input with both classes and k distinct scores exactly k + 2
\* points are emitted; an input whose samples all share one score yields
\* exactly three points.
C25_PointPerTieGroup ==
    CurveEmitted =>
        /\ Len(curve.thresholds) = Cardinality(ScoreValues(scores)) + 2
        /\ Len(curve.fpr) = Len(curve.thresholds)
        /\ Len(curve.tpr) = Len(curve.thresholds)
        /\ Cardinality(ScoreValues(scores)) = 1 => Len(curve.fpr) = 3

C25_Witness ==
    /\ op = "saveRocDataToCSV"
    /\ scores = <<1, 1, 1>>
    /\ labels = <<TRUE, FALSE, TRUE>>
    /\ curve.fpr = <<<<0, 1>>, <<0, 1>>, <<1, 1>>>>
    /\ curve.tpr = <<<<0, 1>>, <<0, 1>>, <<1, 1>>>>
\* C26: no division with a zero denominator is executed by calculateMetrics,
\* saveRocDataToCSV or evaluateAlgorithm, on any input: empty, mismatched,
\* single-class, all scores equal, or a tuple of zero counts.
C26_NoZeroDivisor == R(0) \notin Divisors

C26_Witness ==
    /\ op = "evaluateAlgorithm"
    /\ threshold = <<-1, 1>>
    /\ scores = <<0, 0>>
    /\ labels = <<TRUE, TRUE>>
    /\ results["recall"] = <<0, 1>>
    /\ Divisors = {<<2, 1>>}
\* the number of (positive, negative) pairs of samples whose scores are in
\* relation rel
PairsWhere(s, l, rel(_, _)) ==
    Cardinality({p \in (1..Len(s)) \X (1..Len(s)) :
                    l[p[1]] /\ ~l[p[2]] /\ rel(s[p[1]], s[p[2]])})

Higher(x, y) == x > y
Equal(x, y) == x = y

\* the rank statistic (W + T/2) / (P * N)
RankStatistic(s, l) ==
    Rat(2 * PairsWhere(s, l, Higher) + PairsWhere(s, l, Equal),
        2 * ClassCount(l, TRUE) * ClassCount(l, FALSE))

\* C27: for an input with P positives and N negatives, both positive, the
\* trapezoidal AUC equals (W + T/2) / (P * N), W the number of (positive,
\* negative) pairs in which the positive scores strictly higher and T the
\* number of such pairs with equal scores.
C27_AucIsRankStatistic ==
    CurveEmitted =>
        /\ op = "saveRocDataToCSV" => auc = RankStatistic(scores, labels)
        /\ op = "evaluateAlgorithm"
             => results["auc"] = RankStatistic(scores, labels)

C27_Witness ==
    /\ op = "saveRocDataToCSV"
    /\ scores = <<1, 1, 2>>
    /\ labels = <<TRUE, FALSE, FALSE>>
    /\ PairsWhere(scores, labels, Higher) = 0
    /\ PairsWhere(scores, labels, Equal) = 1
    /\ auc = <<1, 4>>

\* the thresholds tried against the curve: below, at and between the scores
OperatingThresholds ==
    {Rat(i, 2) : i \in (0 - 2)..(2 * MaxScore + 1)}

\* C28: for an input with both classes and every threshold t, the operating
\* point (FP/(FP+TN), TP/(TP+FN)) of calculateConfusionMatrix(scores,
\* labels, t) is the (fpr, tpr) of some emitted ROC point.
C28_OperatingPointsOnCurve ==
    CurveEmitted =>
        \A t \in OperatingThresholds :
            LET cm == calculateConfusionMatrix(scores, labels, t)
            IN  \E i \in 1..Len(curve.fpr) :
                    /\ curve.fpr[i] = Rat(cm[2], cm[2] + cm[3])
                    /\ curve.tpr[i] = Rat(cm[1], cm[1] + cm[4])

C28_Witness ==
    /\ op = "saveRocDataToCSV"
    /\ scores = <<2, 1, 1>>
    /\ labels = <<TRUE, FALSE, TRUE>>
    /\ calculateConfusionMatrix(scores, labels, <<3, 2>>) = <<1, 0, 1, 1>>
    /\ curve.fpr[3] = <<0, 1>>
    /\ curve.tpr[3] = <<1, 2>>
\* the last two calls were the same call on the same valid arguments
SameCallTwice ==
    /\ op \in {"saveRocDataToCSV", "evaluateAlgorithm"}
    /\ previous.op = op
    /\ scores = previous.scores
    /\ labels = previous.labels
    /\ ~InvalidInput(scores, labels)
    /\ op = "evaluateAlgorithm" => threshold = previous.threshold

\* C29: a failure to open the ROC file changes no computed value: of two
\* calls on the same valid arguments, one that opened the file and one that
\* could not, saveRocDataToCSV returns the same AUC and evaluateAlgorithm
\* the same map, which has the eleven keys and no error entry.
C29_OpenFailureKeepsValues ==
    (SameCallTwice /\ {cerr, previous.cerr} = {<<>>, <<MsgOpen>>})
    => /\ op = "saveRocDataToCSV" => auc = previous.auc
       /\ op = "evaluateAlgorithm"
            => /\ results = previous.results
               /\ DOMAIN results = ResultKeys
               /\ "error" \notin DOMAIN results

C29_Witness ==
    /\ SameCallTwice
    /\ op = "saveRocDataToCSV"
    /\ previous.cerr = <<>>
    /\ cerr = <<MsgOpen>>
    /\ auc = <<1, 2>>
    /\ files = previous.files

\* every label of l1 is the inverse of the label of l2 at its place
InvertedLabels(l1, l2) ==
    /\ Len(l1) = Len(l2)
    /\ \A i \in 1..Len(l1) : l1[i] = ~l2[i]

\* C30: inverting every label of an input with both classes, the scores
\* unchanged, turns the AUC a into 1 - a.
C30_InvertedLabelsComplementAuc ==
    (/\ CurveEmitted
     /\ previous.op = op
     /\ scores = previous.scores
     /\ InvertedLabels(labels, previous.labels))
    => /\ op = "saveRocDataToCSV" => RAdd(auc, previous.auc) = <<1, 1>>
       /\ op = "evaluateAlgorithm"
            => RAdd(results["auc"], previous.results["auc"]) = <<1, 1>>

C30_Witness ==
    /\ op = "saveRocDataToCSV"
    /\ previous.op = "saveRocDataToCSV"
    /\ scores = <<0, 1>>
    /\ previous.scores = <<0, 1>>
    /\ previous.labels = <<FALSE, TRUE>>
    /\ labels = <<TRUE, FALSE>>
    /\ previous.auc = <<1, 1>>
    /\ auc = <<0, 1>>
====
